---- MODULE Spec2Model ----
(***************************************************************************)
(* Verification model of the cosmic-connect applet.                        *)
(*                                                                         *)
(* Part 1: the cross-process notification gate                             *)
(* (cosmic-ext-connected/src/notifications.rs, and the identical copy in   *)
(* cosmic-applet-connected/src/notifications.rs).                          *)
(*                                                                         *)
(* A "call" is one invocation of should_show_notification.  Every call     *)
(* opens its own file description, so flock(2) treats every call as its    *)
(* own lock owner, whether two calls come from two processes or from one.  *)
(* Each system call of the function is one step, so that calls interleave  *)
(* exactly where the operating system lets them.                           *)
(*                                                                         *)
(* Text is modelled as a sequence of one-character strings; the record     *)
(* written by write!(file, "{}\n{}", key, now_ms) and the parsing done by  *)
(* split_once('\n') and parse::<u128>() work on these characters.          *)
(*                                                                         *)
(* Every Result the function discards (read_to_string, set_len, rewind,    *)
(* write!, flock(LOCK_UN)) may be an error: a step takes an input          *)
(* ok \in BOOLEAN, and at most MaxFaults steps of a behaviour fail.  The   *)
(* field io_failed of a call remembers that one of its steps failed.       *)
(* Keys are file URLs or "thread:date" texts: they hold no line break.     *)
(***************************************************************************)
EXTENDS Integers, Sequences, FiniteSets, TLC

\* ------------------------------------------------------------------ bounds

\* Number of gate calls in a behaviour.
NumCalls == 3

\* The clock (ms since the epoch) when the model starts.
ClockStart == 10000

\* Number of system calls that may fail in one behaviour.
MaxFaults == 1

\* ------------------------------------------------------- program constants

DEDUP_WINDOW_MS == 2000

FILE_DEDUP_PATH == "/tmp/cosmic-connected-file-dedup"

SMS_DEDUP_PATH == "/tmp/cosmic-connected-sms-dedup"

\* ------------------------------------------------------------------- text

NL == "\n"

Digits == <<"0", "1", "2", "3", "4", "5", "6", "7", "8", "9">>

IsDigit(ch) == \E i \in 1..10 : Digits[i] = ch

DigitVal(ch) == (CHOOSE i \in 1..10 : Digits[i] = ch) - 1

\* Display for an unsigned integer: decimal, no sign, no leading zeros.
RECURSIVE ToDecimal(_)
ToDecimal(n) ==
    IF n < 10 THEN <<Digits[n + 1]>>
    ELSE ToDecimal(n \div 10) \o <<Digits[(n % 10) + 1]>>

\* The value of a run of decimal digits.
RECURSIVE DigitsValue(_)
DigitsValue(s) ==
    IF s = <<>> THEN 0
    ELSE 10 * DigitsValue(SubSeq(s, 1, Len(s) - 1)) + DigitVal(s[Len(s)])

ParseErr == -1

\* str::parse::<u128>(): an optional leading '+', then one or more decimal
\* digits and nothing else; anything else is an Err.  (Values beyond
\* u128::MAX are an Err too; no text of the model is that long.)
ParseU128(s) ==
    LET body == IF s # <<>> /\ s[1] = "+" THEN Tail(s) ELSE s
    IN  IF body = <<>> \/ \E i \in 1..Len(body) : ~IsDigit(body[i])
        THEN ParseErr
        ELSE DigitsValue(body)

\* str::split_once('\n'): the text before and after the first line break.
HasNL(s) == \E i \in 1..Len(s) : s[i] = NL

FirstNL(s) == CHOOSE i \in 1..Len(s) : s[i] = NL /\ \A j \in 1..(i - 1) : s[j] # NL

\* The (stored_key, stored_time) the function finds in the text it read, or
\* ok = FALSE when split_once or parse fails.
NoRecord == [ok |-> FALSE, key |-> <<>>, time |-> 0]

ParseRecord(contents) ==
    IF ~HasNL(contents) THEN NoRecord
    ELSE LET i == FirstNL(contents)
             t == ParseU128(SubSeq(contents, i + 1, Len(contents)))
         IN  IF t = ParseErr THEN NoRecord
             ELSE [ok |-> TRUE, key |-> SubSeq(contents, 1, i - 1), time |-> t]

\* u128::saturating_sub
SaturatingSub(a, b) == IF a >= b THEN a - b ELSE 0

\* Mutants of the window test: a window one millisecond short, a strict
\* comparison, and a subtraction that wraps around instead of saturating.
WindowExpiredEarly(now_ms, stored_time) ==
    SaturatingSub(now_ms, stored_time) >= DEDUP_WINDOW_MS - 1

WindowExpiredStrict(now_ms, stored_time) ==
    SaturatingSub(now_ms, stored_time) > DEDUP_WINDOW_MS

WindowExpiredWrapping(now_ms, stored_time) ==
    (IF now_ms >= stored_time THEN now_ms - stored_time
     ELSE 1000000000 + now_ms - stored_time) >= DEDUP_WINDOW_MS

\* The window test of line 85.
WindowExpired(now_ms, stored_time) ==
    SaturatingSub(now_ms, stored_time) >= DEDUP_WINDOW_MS

\* Mutants of the decision: the key comparison left out, and a parse failure
\* answered with "deny".
ShouldNotifyIgnoringKey(contents, key, now_ms) ==
    LET r == ParseRecord(contents)
    IN  IF r.ok THEN WindowExpired(now_ms, r.time) ELSE TRUE

ShouldNotifyDenyingCorrupt(contents, key, now_ms) ==
    LET r == ParseRecord(contents)
    IN  IF r.ok THEN r.key # key \/ WindowExpired(now_ms, r.time)
        ELSE FALSE

\* should_notify, lines 82-91.
ShouldNotify(contents, key, now_ms) ==
    LET r == ParseRecord(contents)
    IN  IF r.ok THEN r.key # key \/ WindowExpired(now_ms, r.time)
        ELSE TRUE

\* Mutant of the record format: a space where the line break belongs.
FormatRecordOneLine(key, now_ms) == key \o <<" ">> \o ToDecimal(now_ms)

\* Mutant of the record: the time in seconds.
FormatRecordSeconds(key, now_ms) == key \o <<NL>> \o ToDecimal(now_ms \div 1000)

\* The bytes of write!(file, "{}\n{}", key, now_ms).
FormatRecord(key, now_ms) == key \o <<NL>> \o ToDecimal(now_ms)

\* The key of should_show_sms_notification: format!("{}:{}", thread_id, message_date).
SmsKey(thread_id, message_date) ==
    ToDecimal(thread_id) \o <<":">> \o ToDecimal(message_date)

\* ----------------------------------------------------------- file system

NUL == "NUL"

RECURSIVE Zeros(_)
Zeros(n) == IF n <= 0 THEN <<>> ELSE <<NUL>> \o Zeros(n - 1)

\* write(2) of bytes at offset pos of a file holding data: the bytes replace
\* what is there and extend the file; a gap before pos reads as zero bytes.
WriteAt(data, pos, bytes) ==
    IF bytes = <<>> THEN data
    ELSE IF pos >= Len(data) THEN data \o Zeros(pos - Len(data)) \o bytes
    ELSE SubSeq(data, 1, pos) \o bytes \o SubSeq(data, pos + Len(bytes) + 1, Len(data))

AbsentFile == [exists |-> FALSE, data |-> <<>>]

FileOf(data) == [exists |-> TRUE, data |-> data]

Paths == {FILE_DEDUP_PATH, SMS_DEDUP_PATH}

\* ----------------------------------------------------------------- inputs

Calls == 1..NumCalls

\* File URLs handed to should_show_file_notification.  The second one reads
\* like a message key.
FileUrls == {<<"a">>, <<"1", ":", "5">>}

ThreadIds == {1, 2}

MessageDates == {5}

\* What a dedup file may hold before the first call: nothing (absent),
\* an empty file, text without a line break, a key with an unreadable time,
\* and a record left by an earlier run.
InitialFiles ==
    { AbsentFile,
      FileOf(<<>>),
      FileOf(<<"x">>),
      FileOf(<<"a", NL, "x">>),
      FileOf(FormatRecord(<<"a">>, ClockStart)) }

\* The initial files of the two-class specification: absent, or a record of
\* the key both classes can produce.
ClassInitialFiles ==
    { AbsentFile, FileOf(FormatRecord(<<"1", ":", "5">>, ClockStart)) }

\* The instants at which the model looks at the clock: the start, and one
\* millisecond before and exactly one window after it.
Instants ==
    {ClockStart, ClockStart + DEDUP_WINDOW_MS - 1, ClockStart + DEDUP_WINDOW_MS}

\* ------------------------------------------------------------------ state

VARIABLES
    clock,      \* system time, ms since the epoch
    files,      \* path -> [exists, data]
    holders,    \* path -> the calls holding a flock on the file
    call,       \* call -> its locals and its place in the function
    lock_order, \* path -> the calls in the order in which they got the lock
    files0,     \* the files before the first call
    faults      \* number of failed system calls so far

gate_vars == <<clock, files, holders, call, lock_order, files0, faults>>

\* Part 2 (kdeconnect-dbus/src/plugins/sms.rs, kdeconnect-dbus/src/contacts.rs):
\* the arguments and the results of the message and phone-number functions.
VARIABLES
    values,        \* Vec<OwnedValue> handed to parse_conversations / parse_messages
    wanted_thread, \* the thread_id handed to parse_messages
    summaries,     \* Vec<ConversationSummary> returned by parse_conversations
    messages,      \* Vec<SmsMessage> returned by parse_messages
    sms_pc,        \* "collect" until one of the two functions has returned
    value,         \* the OwnedValue handed to parse_sms_message
    message,       \* Option<SmsMessage> returned by parse_sms_message
    decode_pc,     \* "build" until parse_sms_message has returned
    phone,         \* the &str handed to the phone-number functions
    normalized,    \* normalize_phone_number(phone)
    renormalized,  \* normalize_phone_number of that result
    canonicalized, \* canonicalize_phone_number(phone)
    valid,         \* is_address_valid(phone)
    phone_pc       \* "type" until the functions have returned

sms_vars == <<values, wanted_thread, summaries, messages, sms_pc>>

decode_vars == <<value, message, decode_pc>>

phone_vars == <<phone, normalized, renormalized, canonicalized, valid, phone_pc>>

\* Part 4 (kdeconnect-dbus/src/contacts.rs): the contact directory.
VARIABLES
    vcard_dir,     \* the kpeoplevcard directory of the device
    lookup,        \* the ContactLookup returned by load_for_device
    asked,         \* the phone number handed to get_name_or_number
    answer,        \* the text get_name_or_number returned
    contacts_pc    \* "sync" while files arrive, "loaded", "answered"

contacts_vars == <<vcard_dir, lookup, asked, answer, contacts_pc>>

vars == <<gate_vars, sms_vars, decode_vars, phone_vars, contacts_vars>>

\* Nothing has been handed to the message functions.
SmsOff ==
    /\ values = <<>>
    /\ wanted_thread = <<0, 0, 0, 0>>
    /\ summaries = <<>>
    /\ messages = <<>>
    /\ sms_pc = "off"

\* Nothing has been handed to parse_sms_message.
DecodeOff ==
    /\ value = [type |-> "Bool", v |-> FALSE]
    /\ message = [some |-> FALSE]
    /\ decode_pc = "off"

\* No contact directory has been loaded.
ContactsOff ==
    /\ vcard_dir = [exists |-> FALSE, entries |-> <<>>]
    /\ lookup = [phone_to_name |-> <<>>, contacts |-> <<>>]
    /\ asked = <<>>
    /\ answer = <<>>
    /\ contacts_pc = "off"

\* Nothing has been handed to the phone-number functions.
PhoneOff ==
    /\ phone = <<>>
    /\ normalized = <<>>
    /\ renormalized = <<>>
    /\ canonicalized = <<>>
    /\ valid = FALSE
    /\ phone_pc = "off"

IdleCall ==
    [pc |-> "idle", class |-> "none", path |-> FILE_DEDUP_PATH, key |-> <<>>,
     now_ms |-> 0, contents |-> <<>>, pos |-> 0, should_notify |-> FALSE,
     ret |-> FALSE, failed_at |-> "none", io_failed |-> FALSE,
     locked_at |-> 0]

\* The gate of the file-transfer class is started on any of the initial
\* files; the message class is not used.
Init ==
    /\ clock = ClockStart
    /\ files \in [Paths -> InitialFiles]
    /\ files[SMS_DEDUP_PATH] = AbsentFile
    /\ holders = [p \in Paths |-> {}]
    /\ call = [c \in Calls |-> IdleCall]
    /\ lock_order = [p \in Paths |-> <<>>]
    /\ files0 = files
    /\ faults = 0
    /\ SmsOff /\ DecodeOff /\ PhoneOff /\ ContactsOff

\* A step may fail only while the fault budget lasts.
MayBe(ok) == ok \/ faults < MaxFaults

Count(ok) == IF ok THEN faults ELSE faults + 1

\* SystemTime::now().duration_since(UNIX_EPOCH).map(|d| d.as_millis()).unwrap_or(0)
NowMs(t) == IF t >= 0 THEN t ELSE 0

\* Mutant of the lock: granted whoever holds it (a shared lock, or none).
CanLockShared(path) == TRUE

\* Mutant of the lock: granted once and never handed over.
CanLockFirstOnly(path) == lock_order[path] = <<>>

\* flock(fd, LOCK_EX) is granted when no other open file description holds a
\* lock on the file.
CanLock(path) == holders[path] = {}

\* flock(fd, LOCK_UN) releases the lock unless it fails.
HoldersAfterUnlock(h, c, ok) == IF ok THEN h \ {c} ELSE h

\* Mutant of the close: the file description outlives the call.
HoldersAfterLeak(h, c) == h

\* Dropping `file` closes the file description, which releases a lock it
\* still holds.
HoldersAfterClose(h, c) == h \ {c}

\* Mutant of the fail-open result: "return false".
FailClosedResult == FALSE

\* "return true" of lines 60 and 74.
FailOpenResult == TRUE

\* Mutant of the file of a class: both classes on one file.
FilePathShared(class) == FILE_DEDUP_PATH

\* The file of each event class, lines 23-33.
FilePathOf(class) == IF class = "file" THEN FILE_DEDUP_PATH ELSE SMS_DEDUP_PATH

\* ---------------------------------------------------------------- actions

\* Calls are numbered in the order in which they start.
MayStart(c) ==
    call[c].pc = "idle" /\ (IF c = 1 THEN TRUE ELSE call[c - 1].pc # "idle")

\* should_show_notification(dedup_file, key), lines 44-61: read the clock,
\* then open the file for read and write, creating it if absent; on an error
\* return true.
Enter(c, class, key, ok) ==
    /\ MayStart(c)
    /\ MayBe(ok)
    /\ faults' = Count(ok)
    /\ LET path == FilePathOf(class)
           entered == [call[c] EXCEPT !.class = class, !.path = path, !.key = key,
                                      !.now_ms = NowMs(clock)]
       IN  IF ok
           THEN /\ files' = [files EXCEPT ![path] = FileOf(@.data)]
                /\ call' = [call EXCEPT ![c] = [entered EXCEPT !.pc = "flock"]]
           ELSE /\ files' = files
                /\ call' = [call EXCEPT ![c] =
                              [entered EXCEPT !.pc = "done", !.ret = FailOpenResult,
                                              !.failed_at = "open", !.io_failed = TRUE]]
    /\ UNCHANGED <<clock, holders, lock_order, files0,
                 sms_vars, decode_vars, phone_vars, contacts_vars>>

\* should_show_file_notification(file_url)
ShowFile(c, file_url, ok) == Enter(c, "file", file_url, ok)

\* should_show_sms_notification(thread_id, message_date)
ShowSms(c, thread_id, message_date, ok) ==
    Enter(c, "sms", SmsKey(thread_id, message_date), ok)

\* Lines 70-76: flock(fd, LOCK_EX) blocks until the lock is free; on an
\* error return true (the file is closed on the way out).  locked_at keeps
\* the time at which the lock was granted, for as long as the call holds it.
Flock(c, ok) ==
    /\ call[c].pc = "flock"
    /\ MayBe(ok)
    /\ faults' = Count(ok)
    /\ IF ok
       THEN /\ CanLock(call[c].path)
            /\ holders' = [holders EXCEPT ![call[c].path] = @ \cup {c}]
            /\ lock_order' = [lock_order EXCEPT ![call[c].path] = Append(@, c)]
            /\ call' = [call EXCEPT ![c] =
                          [@ EXCEPT !.pc = "read", !.locked_at = clock]]
       ELSE /\ holders' = holders
            /\ lock_order' = lock_order
            /\ call' = [call EXCEPT ![c] =
                          [@ EXCEPT !.pc = "done", !.ret = FailOpenResult,
                                    !.failed_at = "flock", !.io_failed = TRUE]]
    /\ UNCHANGED <<clock, files, files0,
                 sms_vars, decode_vars, phone_vars, contacts_vars>>

\* Mutant of line 93: the record is rewritten whatever the decision.
WritesRecordAlways(should_notify) == TRUE

\* `if should_notify {` of line 93: only an allowed call rewrites the record.
WritesRecord(should_notify) == should_notify

\* Lines 79-93: read_to_string from the start of the file, then decide.  The
\* file is read with one read(2): an error leaves the text empty, with the
\* offset still at the start (the read failed) or at the end (the bytes read
\* are not UTF-8).
ReadFile(c, ok, at_end) ==
    /\ call[c].pc = "read"
    /\ MayBe(ok)
    /\ faults' = Count(ok)
    /\ ok => at_end
    /\ LET contents == IF ok THEN files[call[c].path].data ELSE <<>>
           sn == ShouldNotify(contents, call[c].key, call[c].now_ms)
       IN  call' = [call EXCEPT ![c] =
                      [@ EXCEPT !.pc = IF WritesRecord(sn) THEN "set_len" ELSE "unlock",
                                !.contents = contents,
                                !.should_notify = sn,
                                !.pos = IF at_end THEN Len(files[call[c].path].data) ELSE 0,
                                !.io_failed = @ \/ ~ok]]
    /\ UNCHANGED <<clock, files, holders, lock_order, files0,
                 sms_vars, decode_vars, phone_vars, contacts_vars>>

\* Lines 95-96: file.set_len(0) and file.rewind(); both Results are discarded.
SetLen(c, ok, rewound) ==
    /\ call[c].pc = "set_len"
    /\ MayBe(ok /\ rewound)
    /\ ~(ok \/ rewound) => faults + 2 <= MaxFaults
    /\ faults' = Count(ok) + (IF rewound THEN 0 ELSE 1)
    /\ files' = IF ok THEN [files EXCEPT ![call[c].path] = FileOf(<<>>)] ELSE files
    /\ call' = [call EXCEPT ![c] =
                  [@ EXCEPT !.pc = "write", !.pos = IF rewound THEN 0 ELSE @,
                            !.io_failed = @ \/ ~ok \/ ~rewound]]
    /\ UNCHANGED <<clock, holders, lock_order, files0,
                 sms_vars, decode_vars, phone_vars, contacts_vars>>

\* Line 97: write!(file, "{}\n{}", key, now_ms); its Result is discarded.
\* The text goes out in three writes, the key, the line break and the time:
\* `pieces` of them succeed, and the write is ok when all three do.
WriteRecord(c, pieces) ==
    /\ call[c].pc = "write"
    /\ MayBe(pieces = 3)
    /\ faults' = Count(pieces = 3)
    /\ LET bytes == FormatRecord(call[c].key, call[c].now_ms)
           written == CASE pieces = 0 -> 0
                        [] pieces = 1 -> Len(call[c].key)
                        [] pieces = 2 -> Len(call[c].key) + 1
                        [] OTHER -> Len(bytes)
       IN  /\ files' = [files EXCEPT ![call[c].path] =
                          FileOf(WriteAt(@.data, call[c].pos, SubSeq(bytes, 1, written)))]
           /\ call' = [call EXCEPT ![c] =
                         [@ EXCEPT !.pc = "unlock", !.pos = @ + written,
                                   !.io_failed = @ \/ pieces # 3]]
    /\ UNCHANGED <<clock, holders, lock_order, files0,
                 sms_vars, decode_vars, phone_vars, contacts_vars>>

\* Lines 100-107: flock(fd, LOCK_UN), whose result is discarded, then return
\* should_notify; the locals go out of scope and `file` is closed.
Leave(c, ok) ==
    /\ call[c].pc = "unlock"
    /\ MayBe(ok)
    /\ faults' = Count(ok)
    /\ holders' = [holders EXCEPT ![call[c].path] =
                      HoldersAfterClose(HoldersAfterUnlock(@, c, ok), c)]
    /\ call' = [call EXCEPT ![c] =
                  [@ EXCEPT !.pc = "done", !.ret = call[c].should_notify,
                            !.contents = <<>>, !.pos = 0, !.should_notify = FALSE,
                            !.io_failed = @ \/ ~ok, !.locked_at = 0]]
    /\ UNCHANGED <<clock, files, lock_order, files0,
                 sms_vars, decode_vars, phone_vars, contacts_vars>>

\* Time passes.  Only a call that has yet to read the clock can tell.
Tick(t) ==
    /\ \E c \in Calls : call[c].pc = "idle"
    /\ t > clock
    /\ clock' = t
    /\ UNCHANGED <<files, holders, call, lock_order, files0, faults,
                 sms_vars, decode_vars, phone_vars, contacts_vars>>

\* The steps of a call that has entered, and of the clock.
GateStep ==
    \/ \E c \in Calls, ok \in BOOLEAN : Flock(c, ok)
    \/ \E c \in Calls, ok, at_end \in BOOLEAN : ReadFile(c, ok, at_end)
    \/ \E c \in Calls, ok, rewound \in BOOLEAN : SetLen(c, ok, rewound)
    \/ \E c \in Calls, pieces \in 0..3 : WriteRecord(c, pieces)
    \/ \E c \in Calls, ok \in BOOLEAN : Leave(c, ok)
    \/ \E t \in Instants : Tick(t)

\* The gate of one event class: file-transfer alerts, system calls may fail.
Next ==
    \/ \E c \in Calls, u \in FileUrls, ok \in BOOLEAN : ShowFile(c, u, ok)
    \/ GateStep

Spec == Init /\ [][Next]_vars

\* Both event classes side by side, every system call succeeding.
InitClasses ==
    /\ clock = ClockStart
    /\ files \in [Paths -> ClassInitialFiles]
    /\ holders = [p \in Paths |-> {}]
    /\ call = [c \in Calls |-> IdleCall]
    /\ lock_order = [p \in Paths |-> <<>>]
    /\ files0 = files
    /\ faults = MaxFaults
    /\ SmsOff /\ DecodeOff /\ PhoneOff /\ ContactsOff

NextClasses ==
    \/ \E c \in Calls, u \in FileUrls, ok \in BOOLEAN : ShowFile(c, u, ok)
    \/ \E c \in Calls, t \in ThreadIds, d \in MessageDates, ok \in BOOLEAN :
          ShowSms(c, t, d, ok)
    \/ GateStep

SpecClasses == InitClasses /\ [][NextClasses]_vars

\* ---------------------------------------------------------------- crashes

\* Mutant of the exit: the lock outlives the process.
HoldersAfterKill(h, c) == h

\* A process that dies has its file descriptions closed by the kernel, which
\* releases the flock taken at line 73.
HoldersAfterExit(h, c) == h \ {c}

\* The process dies between flock(LOCK_EX) and flock(LOCK_UN), lines 73-103:
\* before the read, before or after the truncation, part-way through the
\* write (the first `written` bytes of the record are in the file), or after
\* it.  failed_at keeps the place where it died; its locals are gone.
Crash(c, written) ==
    /\ call[c].pc \in {"read", "set_len", "write", "unlock"}
    /\ c \in holders[call[c].path]
    /\ written < Len(FormatRecord(call[c].key, call[c].now_ms))
    /\ call[c].pc # "write" => written = 0
    /\ files' = IF call[c].pc = "write"
                THEN [files EXCEPT ![call[c].path] =
                        FileOf(WriteAt(@.data, call[c].pos,
                                       SubSeq(FormatRecord(call[c].key, call[c].now_ms),
                                              1, written)))]
                ELSE files
    /\ holders' = [holders EXCEPT ![call[c].path] = HoldersAfterExit(@, c)]
    /\ call' = [call EXCEPT ![c] =
                  [@ EXCEPT !.pc = "crashed", !.failed_at = call[c].pc,
                            !.contents = <<>>, !.pos = 0,
                            !.should_notify = FALSE, !.locked_at = 0]]
    /\ UNCHANGED <<clock, lock_order, files0, faults,
                 sms_vars, decode_vars, phone_vars, contacts_vars>>

\* The initial files of the specification with crashes: absent, or a record
\* left by an earlier run.
CrashInitialFiles == {AbsentFile, FileOf(FormatRecord(<<"a">>, ClockStart))}

\* The gate of the file-transfer class among processes that may die while
\* they hold the lock; every system call succeeds.
InitCrash ==
    /\ clock = ClockStart
    /\ files \in [Paths -> CrashInitialFiles]
    /\ files[SMS_DEDUP_PATH] = AbsentFile
    /\ holders = [p \in Paths |-> {}]
    /\ call = [c \in Calls |-> IdleCall]
    /\ lock_order = [p \in Paths |-> <<>>]
    /\ files0 = files
    /\ faults = MaxFaults
    /\ SmsOff /\ DecodeOff /\ PhoneOff /\ ContactsOff

\* The next step of a call that is inside the function; flock waits for the
\* lock to be free.
Proceed(c) ==
    \/ Flock(c, TRUE)
    \/ ReadFile(c, TRUE, TRUE)
    \/ SetLen(c, TRUE, TRUE)
    \/ WriteRecord(c, 3)
    \/ Leave(c, TRUE)

\* All calls are made at one instant.
NextCrash ==
    \/ \E c \in Calls, u \in FileUrls : ShowFile(c, u, TRUE)
    \/ \E c \in Calls : Proceed(c)
    \/ \E c \in Calls :
          \E written \in 0..(Len(FormatRecord(call[c].key, call[c].now_ms)) - 1) :
              Crash(c, written)

\* Fair scheduling: while some process can take its next step, one of them
\* does, or dies.
SpecCrash ==
    InitCrash /\ [][NextCrash]_vars /\ WF_vars(\E c \in Calls : Proceed(c))

\* ------------------------------------------------------- reading the state

Done(c) == call[c].pc = "done"

\* The call has read the file and decided, and is still inside the function.
Decided(c) == call[c].pc \in {"set_len", "write", "unlock"}

\* None of the call's system calls has failed.
Clean(c) == ~call[c].io_failed

\* The call's answer, once it has decided.
Allows(c) == IF Done(c) THEN call[c].ret ELSE call[c].should_notify

\* The calls that got the lock on the file, in that order.
Locked(path) == lock_order[path]

\* Every call that held the lock from the i-th to the j-th has key `key` and
\* no failed system call.
SameKeyRun(path, i, j, key) ==
    \A k \in i..j : Clean(Locked(path)[k]) /\ call[Locked(path)[k]].key = key

\* ---------------------------------------------------------------------- C1

Entered(path) == {c \in Calls : call[c].pc # "idle" /\ call[c].path = path}

\* The file held no record of the key before the first call.
NoPriorRecord(path, key) ==
    ~ParseRecord(files0[path].data).ok \/ ParseRecord(files0[path].data).key # key

C3_LockScope ==
    \A c \in Calls :
        /\ call[c].pc \in {"read", "set_len", "write", "unlock"}
              => holders[call[c].path] = {c}
        /\ (call[c].pc = "set_len" /\ Clean(c))
              => files[call[c].path].data = call[c].contents

\* A call is about to write while another waits for the lock on the file.
C3_Witness ==
    \E c, d \in Calls :
        /\ c # d /\ call[c].path = call[d].path
        /\ call[c].pc = "write" /\ call[d].pc = "flock"
        /\ call[c].contents # <<>>

\* ---------------------------------------------------------------------- C4

\* C4: on a file that was absent, the first call to hold the lock returns
\* allow, and a later call with the same key whose timestamp is less than
\* 2000 ms after the first call's returns deny, as long as the calls up to it
\* all have that key (and none of their system calls fails).
C4_FirstAllowsRepeatsDeny ==
    \A path \in Paths :
        \A j \in 1..Len(Locked(path)) :
            LET first == Locked(path)[1]
                c == Locked(path)[j]
            IN  ( /\ files0[path] = AbsentFile
                  /\ Done(c)
                  /\ SameKeyRun(path, 1, j, call[first].key) )
                => IF j = 1 THEN call[c].ret
                   ELSE call[c].now_ms - call[first].now_ms < DEDUP_WINDOW_MS
                           => ~call[c].ret

\* The first call was allowed and two repeats were denied.
C4_Witness ==
    \E path \in Paths :
        /\ files0[path] = AbsentFile
        /\ Len(Locked(path)) = 3
        /\ SameKeyRun(path, 1, 3, call[Locked(path)[1]].key)
        /\ \A j \in 1..3 : Done(Locked(path)[j])
        /\ call[Locked(path)[1]].ret
        /\ ~call[Locked(path)[2]].ret
        /\ ~call[Locked(path)[3]].ret

\* ---------------------------------------------------------------------- C5

\* The call holds the lock, has decided, and has not yet changed the file:
\* the file holds the stored record the decision was made on.
FacesStoredRecord(c) ==
    /\ Clean(c)
    /\ \/ call[c].pc = "set_len"
       \/ call[c].pc = "unlock" /\ ~call[c].should_notify

\* C5: with a well-formed stored record (stored_key, stored_ts), the decision
\* for (key, now) is allow if and only if stored_key differs from key or
\* now - stored_ts >= 2000.
C5_DecisionRule ==
    \A c \in Calls :
        LET r == ParseRecord(files[call[c].path].data)
        IN  (FacesStoredRecord(c) /\ r.ok)
            => ( call[c].should_notify
                   <=> \/ r.key # call[c].key
                       \/ call[c].now_ms - r.time >= DEDUP_WINDOW_MS )

\* A call with the stored key is allowed exactly 2000 ms after the stored
\* time, after a call with that key was denied 1999 ms after it.
C5_Witness ==
    \E c, d \in Calls :
        LET r == ParseRecord(files[call[c].path].data)
        IN  /\ FacesStoredRecord(c) /\ r.ok
            /\ call[c].key = r.key
            /\ call[c].now_ms - r.time = DEDUP_WINDOW_MS
            /\ call[c].should_notify
            /\ Done(d) /\ Clean(d) /\ call[d].path = call[c].path
            /\ call[d].key = r.key
            /\ call[d].now_ms - r.time = DEDUP_WINDOW_MS - 1
            /\ ~call[d].ret

\* ---------------------------------------------------------------------- C6

\* C6: a call whose key differs from the stored key is allowed, however
\* recent the stored time; so a call that holds the lock right after a call
\* with another key (none of whose system calls failed) is allowed.
C6_DifferentKeyAllows ==
    /\ \A c \in Calls :
          LET r == ParseRecord(files[call[c].path].data)
          IN  (FacesStoredRecord(c) /\ r.ok /\ r.key # call[c].key)
              => call[c].should_notify
    /\ \A path \in Paths :
          \A j \in 1..Len(Locked(path)) :
              ( /\ j >= 2
                /\ Clean(Locked(path)[j - 1])
                /\ call[Locked(path)[j - 1]].key # call[Locked(path)[j]].key
                /\ Decided(Locked(path)[j]) \/ Done(Locked(path)[j]) )
              => Allows(Locked(path)[j])

\* key-1, key-2, key-1 at one instant: all three allowed.
C6_Witness ==
    \E path \in Paths :
        /\ Len(Locked(path)) = 3
        /\ \A j \in 1..3 :
              /\ Done(Locked(path)[j]) /\ Clean(Locked(path)[j])
              /\ call[Locked(path)[j]].ret
              /\ call[Locked(path)[j]].now_ms = call[Locked(path)[1]].now_ms
        /\ call[Locked(path)[1]].key # call[Locked(path)[2]].key
        /\ call[Locked(path)[1]].key = call[Locked(path)[3]].key

\* ---------------------------------------------------------------------- C7

\* C7: a call that reads empty or unparsable text (as it does from an absent
\* file) decides allow whatever its key, and when it has written (no system
\* call of its own failing) the file holds the well-formed record (key, now).
C7_CorruptIsNoRecord ==
    \A c \in Calls :
        (Decided(c) /\ Clean(c) /\ ~ParseRecord(call[c].contents).ok)
        => /\ call[c].should_notify
           /\ call[c].pc = "unlock"
                 => ParseRecord(files[call[c].path].data) =
                       [ok |-> TRUE, key |-> call[c].key, time |-> call[c].now_ms]

\* A call found text without a line break and has replaced it.
C7_Witness ==
    \E c \in Calls :
        /\ call[c].pc = "unlock" /\ Clean(c)
        /\ call[c].contents = <<"x">>
        /\ call[c].should_notify
        /\ files[call[c].path].data = FormatRecord(call[c].key, call[c].now_ms)

\* ---------------------------------------------------------------------- C8

\* C8: a call that ends at the open or at the lock request (the open or the
\* flock failed) returns allow, and the step changes no file's bytes; it has
\* read nothing.
C8_FailOpen ==
    [][ \A c \in Calls :
          (call[c].pc \in {"idle", "flock"} /\ call'[c].pc = "done")
          => /\ call'[c].ret
             /\ call'[c].contents = <<>>
             /\ \A p \in Paths : files'[p].data = files[p].data
             /\ call[c].pc = "idle" => files' = files ]_vars

\* A call whose lock request failed has returned allow, with a record of its
\* own key in the file.
C8_Witness ==
    \E c \in Calls :
        /\ Done(c) /\ call[c].failed_at = "flock" /\ call[c].ret
        /\ ParseRecord(files[call[c].path].data).ok
        /\ ParseRecord(files[call[c].path].data).key = call[c].key

\* ---------------------------------------------------------------------- C9

\* C9: a call that has returned holds no lock, whichever way it went.
C9_LockReleased ==
    \A c \in Calls : Done(c) => \A p \in Paths : c \notin holders[p]

\* A call got the lock, one of its system calls failed while it held the lock,
\* and it has returned.
C9_Witness ==
    \E c \in Calls :
        /\ Done(c) /\ call[c].io_failed /\ call[c].failed_at = "none"
        /\ \E i \in 1..Len(Locked(call[c].path)) : Locked(call[c].path)[i] = c
        /\ holders[call[c].path] = {}

\* --------------------------------------------------------------------- C10

\* The file of the other event class.
OtherClassFile(class) ==
    IF class = "file" THEN FilePathOf("sms") ELSE FilePathOf("file")

\* C10: the two classes have different files, and no step of a call of one
\* class changes the file of the other class; what a call reads is the file
\* of its own class.
C10_ClassesDoNotCollide ==
    [][ /\ FilePathOf("file") # FilePathOf("sms")
        /\ \A c \in Calls :
              call'[c] # call[c]
              => /\ files'[OtherClassFile(call'[c].class)] =
                       files[OtherClassFile(call'[c].class)]
                 /\ (call[c].pc = "read" /\ call'[c].contents # <<>>)
                       => call'[c].contents = files[FilePathOf(call[c].class)].data ]_vars

\* A file-transfer call and a message call with the same key text, at the
\* same instant, were both allowed, and each file holds its own record.
C10_Witness ==
    \E c, d \in Calls :
        /\ call[c].class = "file" /\ call[d].class = "sms"
        /\ call[c].key = call[d].key /\ call[c].now_ms = call[d].now_ms
        /\ Done(c) /\ Done(d) /\ call[c].ret /\ call[d].ret
        /\ \A p \in Paths : files[p].data = FormatRecord(call[c].key, call[c].now_ms)

(***************************************************************************)
(* Part 2: the message decoder (kdeconnect-dbus/src/plugins/sms.rs).       *)
(*                                                                         *)
(* A D-Bus value is a record [type, v].  An integer value keeps its width: *)
(* v holds its two's-complement bits, cut into 16-bit limbs, the most      *)
(* significant first (one limb for 8 and 16 bits, two for 32, four for     *)
(* 64).  A Rust `as` cast works on these bits.  Option<T> is                *)
(* [some |-> FALSE] or [some |-> TRUE, v |-> t].                            *)
(***************************************************************************)

\* ------------------------------------------------------- integers and casts

\* One limb holds 16 bits.
LimbBase == 65536

\* The integer types of zvariant::Value.
IntTypes == {"U8", "I16", "U16", "I32", "U32", "I64", "U64"}

Signed(type) == type \in {"I16", "I32", "I64"}

\* The sign bit of a two's-complement value.
Negative(limbs) == limbs[1] >= LimbBase \div 2

RECURSIVE Fill(_, _)
Fill(limb, n) == IF n <= 0 THEN <<>> ELSE <<limb>> \o Fill(limb, n - 1)

\* `*v as iN` to n limbs: a wider target sign-extends a signed source and
\* zero-extends an unsigned one, a narrower target keeps the low bits, and
\* the same width keeps the bits.
Cast(type, limbs, n) ==
    IF Len(limbs) >= n
    THEN SubSeq(limbs, Len(limbs) - n + 1, Len(limbs))
    ELSE Fill(IF Signed(type) /\ Negative(limbs) THEN LimbBase - 1 ELSE 0,
              n - Len(limbs)) \o limbs

\* The bits of a small integer k (|k| < 32768) in n limbs.
Bits(k, n) ==
    IF k >= 0 THEN Fill(0, n - 1) \o <<k>>
    ELSE Fill(LimbBase - 1, n - 1) \o <<LimbBase + k>>

\* Ordering of two signed values of the same width (i64::cmp).
RECURSIVE LexLess(_, _)
LexLess(a, b) ==
    IF a = <<>> THEN FALSE
    ELSE IF a[1] # b[1] THEN a[1] < b[1]
    ELSE LexLess(Tail(a), Tail(b))

Biased(limbs) == [limbs EXCEPT ![1] = (@ + LimbBase \div 2) % LimbBase]

SignedLess(a, b) == LexLess(Biased(a), Biased(b))

\* ------------------------------------------------------------------ Option

None == [some |-> FALSE]

Some(x) == [some |-> TRUE, v |-> x]

\* Option::unwrap_or
UnwrapOr(opt, default) == IF opt.some THEN opt.v ELSE default

\* slice.get(i) and slice.first(), i counted from 0
Get(fields, i) == IF i < Len(fields) THEN Some(fields[i + 1]) ELSE None

\* ------------------------------------------------------------- accessors

\* get_string_from_value
get_string_from_value(val) ==
    IF val.type = "Str" THEN Some(val.v) ELSE None

\* get_i64_from_value: the six integer types of the match, each `as i64`.
get_i64_from_value(val) ==
    IF val.type \in {"I64", "I32", "U64", "U32", "I16", "U16"}
    THEN Some(Cast(val.type, val.v, 4))
    ELSE None

\* get_i32_from_value: the four integer types of the match, each `as i32`.
get_i32_from_value(val) ==
    IF val.type \in {"I32", "I64", "I16", "U16"}
    THEN Some(Cast(val.type, val.v, 2))
    ELSE None

\* impl From<i32> for MessageType
MessageTypeFrom(v) == IF v = Bits(1, 2) THEN "Inbox" ELSE "Sent"

\* The defaults of parse_sms_message, one per unwrap_or.
DefaultType == Bits(1, 2)

DefaultBody == ""

DefaultAddress == "Unknown"

DefaultDate == Bits(0, 4)

\* Mutant: a message whose read flag is missing counts as unread.
DefaultReadFalse == FALSE

DefaultRead == TRUE

\* Mutant: a message whose thread id is missing gets thread -1.
DefaultThreadIdMinusOne == Bits(-1, 4)

DefaultThreadId == Bits(0, 4)

\* Field 2: the first element of the array of addresses, itself a structure
\* whose first field is the text, or the text itself.
AddressOf(fields) ==
    LET f == Get(fields, 2)
    IN  IF f.some /\ f.v.type = "Array" /\ f.v.v # <<>>
        THEN LET addr_struct == f.v.v[1]
             IN  IF addr_struct.type = "Structure"
                 THEN IF addr_struct.v # <<>>
                      THEN get_string_from_value(addr_struct.v[1])
                      ELSE None
                 ELSE get_string_from_value(addr_struct)
        ELSE None

\* fields.get(i).and_then(get_i32_from_value)
I32At(fields, i) ==
    LET f == Get(fields, i) IN IF f.some THEN get_i32_from_value(f.v) ELSE None

\* fields.get(i).and_then(get_i64_from_value)
I64At(fields, i) ==
    LET f == Get(fields, i) IN IF f.some THEN get_i64_from_value(f.v) ELSE None

\* fields.get(i).and_then(get_string_from_value)
StringAt(fields, i) ==
    LET f == Get(fields, i) IN IF f.some THEN get_string_from_value(f.v) ELSE None

\* Field 4: .map(|v| v != 0).unwrap_or(true)
ReadOf(fields) ==
    LET r == I32At(fields, 4)
    IN  IF r.some THEN r.v # Bits(0, 2) ELSE DefaultRead

\* parse_sms_message: None unless the value is a structure, else the message
\* read field by field, by position.
parse_sms_message(val) ==
    IF val.type # "Structure" THEN None
    ELSE LET fields == val.v
         IN  Some([body         |-> UnwrapOr(StringAt(fields, 1), DefaultBody),
                   address      |-> UnwrapOr(AddressOf(fields), DefaultAddress),
                   date         |-> UnwrapOr(I64At(fields, 3), DefaultDate),
                   message_type |-> MessageTypeFrom(
                                       UnwrapOr(I32At(fields, 0), DefaultType)),
                   read         |-> ReadOf(fields),
                   thread_id    |-> UnwrapOr(I64At(fields, 6), DefaultThreadId)])

\* ------------------------------------------------- the two batch functions

MAX_CONVERSATIONS == 25

\* values.iter().filter_map(parse_sms_message).collect()
RECURSIVE FilterMapParse(_)
FilterMapParse(vals) ==
    IF vals = <<>> THEN <<>>
    ELSE LET m == parse_sms_message(Head(vals))
         IN  (IF m.some THEN <<m.v>> ELSE <<>>) \o FilterMapParse(Tail(vals))

\* The comparator of messages.sort_by: `b.date.cmp(&a.date)` puts a before b
\* when a is the more recent, `a.date.cmp(&b.date)` when a is the older.
ComesBefore(a, b, descending) ==
    IF descending THEN SignedLess(b.date, a.date) ELSE SignedLess(a.date, b.date)

\* slice::sort_by is stable: a message goes behind every message that the
\* comparator does not put after it.
RECURSIVE InsertSorted(_, _, _)
InsertSorted(sorted, m, descending) ==
    IF sorted = <<>> THEN <<m>>
    ELSE IF ComesBefore(m, Head(sorted), descending)
         THEN <<m>> \o sorted
         ELSE <<Head(sorted)>> \o InsertSorted(Tail(sorted), m, descending)

RECURSIVE SortFrom(_, _, _)
SortFrom(sorted, rest, descending) ==
    IF rest = <<>> THEN sorted
    ELSE SortFrom(InsertSorted(sorted, Head(rest), descending), Tail(rest),
                  descending)

\* Mutant: the messages stay in the order of arrival.
Unsorted(msgs, descending) == msgs

\* messages.sort_by(..), lines 269 and 307
SortByDate(msgs, descending) == SortFrom(<<>>, msgs, descending)

\* ConversationSummary { thread_id, address, last_message, timestamp, unread }
SummaryOf(msg) ==
    [thread_id    |-> msg.thread_id,
     address      |-> msg.address,
     last_message |-> msg.body,
     timestamp    |-> msg.date,
     unread       |-> ~msg.read]

\* Mutant: the loop stops one summary late.
CapReachedLate(n) == n > MAX_CONVERSATIONS

\* `if summaries.len() >= MAX_CONVERSATIONS { break; }`
CapReached(n) == n >= MAX_CONVERSATIONS

\* The loop of parse_conversations over the sorted messages.
RECURSIVE ScanThreads(_, _, _)
ScanThreads(msgs, seen_threads, out) ==
    IF msgs = <<>> THEN out
    ELSE LET msg == Head(msgs)
         IN  IF msg.thread_id \in seen_threads
             THEN ScanThreads(Tail(msgs), seen_threads, out)
             ELSE LET pushed == Append(out, SummaryOf(msg))
                  IN  IF CapReached(Len(pushed)) THEN pushed
                      ELSE ScanThreads(Tail(msgs),
                                       seen_threads \cup {msg.thread_id}, pushed)

\* Mutant: the conversations are sorted oldest first.
ConversationsAscending == FALSE

\* The order in which parse_conversations sorts: most recent first.
ConversationsDescending == TRUE

parse_conversations(vals) ==
    ScanThreads(SortByDate(FilterMapParse(vals), ConversationsDescending),
                {}, <<>>)

\* Mutant: the filter lets every thread through.
InAnyThread(msg, t) == TRUE

\* .filter(|msg| msg.thread_id == thread_id)
InThread(msg, t) == msg.thread_id = t

RECURSIVE FilterThread(_, _)
FilterThread(msgs, t) ==
    IF msgs = <<>> THEN <<>>
    ELSE (IF InThread(Head(msgs), t) THEN <<Head(msgs)>> ELSE <<>>)
         \o FilterThread(Tail(msgs), t)

\* The order in which parse_messages sorts: oldest first.
MessagesDescending == FALSE

parse_messages(vals, t) ==
    SortByDate(FilterThread(FilterMapParse(vals), t), MessagesDescending)

\* --------------------------------------------------- the values delivered

\* A value of an integer type holding the small integer k.
IntValue(type, k) ==
    [type |-> type,
     v    |-> Bits(k, CASE type \in {"I64", "U64"} -> 4
                        [] type \in {"I32", "U32"} -> 2
                        [] OTHER -> 1)]

StrValue(text) == [type |-> "Str", v |-> text]

Structure(fields) == [type |-> "Structure", v |-> fields]

Array(elements) == [type |-> "Array", v |-> elements]

\* A message as KDE Connect sends it, up to the thread id:
\* (type: i32, body: s, addresses: a(s), date: i64, read: i32, ?, thread_id: i64)
SmsRecord(type, body, address, date, read, thread) ==
    Structure(<<IntValue("I32", type), StrValue(body),
                Array(<<Structure(<<StrValue(address)>>)>>),
                IntValue("I64", date), IntValue("I32", read),
                IntValue("I32", 0), IntValue("I64", thread)>>)

\* At most MaxExtra single messages are delivered one by one.
MaxExtra == 3

\* The single messages: two that are not whole (a value that is no
\* structure, a structure of two fields), and messages of an early and of a
\* late thread, read or not, with a date before or after the dates of
\* ManyThreads.
SampleValues ==
    {StrValue("x"), Structure(<<IntValue("I32", 2), StrValue("short")>>)}
    \cup {SmsRecord(1, "b", "555", d, r, t) :
             d \in {-1, 9}, r \in {0, 1}, t \in {1, 30}}

\* n conversations of one message each, threads 1..n, their dates out of
\* order and with ties.
RECURSIVE ManyThreads(_)
ManyThreads(n) ==
    IF n <= 0 THEN <<>>
    ELSE Append(ManyThreads(n - 1),
                SmsRecord(1 + (n % 2), "m", "777", (n * 3) % 7, n % 2, n))

\* Below and above the cap.
BatchSizes == {0, MAX_CONVERSATIONS + 1}

WantedThreads == {Bits(0, 4), Bits(1, 4), Bits(30, 4)}

\* ------------------------------------------------ the conversation machine

\* The gate is not in use.
GateOff ==
    /\ clock = ClockStart
    /\ files = [p \in Paths |-> AbsentFile]
    /\ holders = [p \in Paths |-> {}]
    /\ call = [c \in Calls |-> IdleCall]
    /\ lock_order = [p \in Paths |-> <<>>]
    /\ files0 = files
    /\ faults = 0

InitSms ==
    /\ GateOff /\ DecodeOff /\ PhoneOff /\ ContactsOff
    /\ values = <<>>
    /\ wanted_thread = Bits(0, 4)
    /\ summaries = <<>>
    /\ messages = <<>>
    /\ sms_pc = "collect"

\* activeConversations() / conversationUpdated: one more value arrives.
Deliver(val) ==
    /\ sms_pc = "collect"
    /\ Len(values) < MaxExtra
    /\ values' = Append(values, val)
    /\ UNCHANGED <<wanted_thread, summaries, messages, sms_pc>>
    /\ UNCHANGED <<gate_vars, decode_vars, phone_vars, contacts_vars>>

\* The rest of the reply arrives: n conversations.
DeliverBatch(n) ==
    /\ sms_pc = "collect"
    /\ values' = values \o ManyThreads(n)
    /\ sms_pc' = "full"
    /\ UNCHANGED <<wanted_thread, summaries, messages>>
    /\ UNCHANGED <<gate_vars, decode_vars, phone_vars, contacts_vars>>

\* parse_conversations(values)
ParseConversations ==
    /\ sms_pc = "full"
    /\ summaries' = parse_conversations(values)
    /\ sms_pc' = "conversations"
    /\ UNCHANGED <<values, wanted_thread, messages>>
    /\ UNCHANGED <<gate_vars, decode_vars, phone_vars, contacts_vars>>

\* parse_messages(values, thread_id)
ParseMessages(t) ==
    /\ sms_pc = "full"
    /\ wanted_thread' = t
    /\ messages' = parse_messages(values, t)
    /\ sms_pc' = "messages"
    /\ UNCHANGED <<values, summaries>>
    /\ UNCHANGED <<gate_vars, decode_vars, phone_vars, contacts_vars>>

NextSms ==
    \/ \E val \in SampleValues : Deliver(val)
    \/ \E n \in BatchSizes : DeliverBatch(n)
    \/ ParseConversations
    \/ \E t \in WantedThreads : ParseMessages(t)

SpecSms == InitSms /\ [][NextSms]_vars

\* ------------------------------------------------------- reading a batch

\* The messages decoded from the batch, in the order of the batch.
Decoded == FilterMapParse(values)

\* The messages of thread t among the decoded messages d.
OfThread(d, t) == {k \in 1..Len(d) : d[k].thread_id = t}

\* ts is the latest date among the messages of thread t in d.
IsLatestDate(d, ts, t) ==
    /\ \E k \in OfThread(d, t) : d[k].date = ts
    /\ \A k \in OfThread(d, t) : ~SignedLess(ts, d[k].date)

\* C11: parse_conversations returns at most 25 summaries, no two of the same
\* thread, and the timestamp of each is the latest date among the decoded
\* messages of its thread in the batch.
C11_SummariesBounded ==
    sms_pc = "conversations" =>
        LET d == Decoded
        IN  /\ Len(summaries) <= 25
            /\ \A i, j \in 1..Len(summaries) :
                  i # j => summaries[i].thread_id # summaries[j].thread_id
            /\ \A i \in 1..Len(summaries) :
                  IsLatestDate(d, summaries[i].timestamp, summaries[i].thread_id)

\* C11 witness: more than 25 threads came in, 25 summaries came out, and one
\* of them stands for a thread with messages of different dates.
C11_Witness ==
    /\ sms_pc = "conversations"
    /\ Len(summaries) = 25
    /\ LET d == Decoded
       IN  /\ Cardinality({d[k].thread_id : k \in 1..Len(d)}) > 25
           /\ \E i \in 1..Len(summaries) :
                 \E a, b \in OfThread(d, summaries[i].thread_id) :
                     d[a].date # d[b].date

\* C12: the summaries come most recent first: from the first to the last
\* their timestamps never increase.
C12_MostRecentFirst ==
    sms_pc = "conversations" =>
        \A i, j \in 1..Len(summaries) :
            i < j => ~SignedLess(summaries[i].timestamp, summaries[j].timestamp)

\* C12 witness: summaries of three different dates, one of them negative,
\* from a batch that did not arrive in that order.
C12_Witness ==
    /\ sms_pc = "conversations"
    /\ \E i, j, k \in 1..Len(summaries) :
          /\ SignedLess(summaries[j].timestamp, summaries[i].timestamp)
          /\ SignedLess(summaries[k].timestamp, summaries[j].timestamp)
          /\ Negative(summaries[k].timestamp)
    /\ LET d == Decoded
       IN  \E a, b \in 1..Len(d) : a < b /\ SignedLess(d[a].date, d[b].date)

\* How often message m occurs in the sequence of messages d.
Occurrences(d, m) == Cardinality({k \in 1..Len(d) : d[k] = m})

\* C13: parse_messages(values, T) returns the decoded messages of thread T,
\* each as often as the batch holds it and no other message, oldest first
\* (dates never decrease).
C13_ThreadListing ==
    sms_pc = "messages" =>
        LET d == Decoded
        IN  /\ \A i \in 1..Len(messages) : messages[i].thread_id = wanted_thread
            /\ \A k \in 1..Len(d) :
                  d[k].thread_id = wanted_thread =>
                      Occurrences(messages, d[k]) = Occurrences(d, d[k])
            /\ Len(messages) = Cardinality(OfThread(d, wanted_thread))
            /\ \A i, j \in 1..Len(messages) :
                  i < j => ~SignedLess(messages[j].date, messages[i].date)

\* C13 witness: the batch holds messages of the thread and of other
\* threads and a value that is no message; the listing has the same message
\* twice and messages of different dates.
C13_Witness ==
    /\ sms_pc = "messages"
    /\ LET d == Decoded
       IN  /\ Len(d) < Len(values)
           /\ \E k \in 1..Len(d) : d[k].thread_id # wanted_thread
    /\ \E i, j \in 1..Len(messages) : i # j /\ messages[i] = messages[j]
    /\ \E i, j \in 1..Len(messages) : messages[i].date # messages[j].date

\* C18: the unread flag of a summary is true exactly when a decoded message
\* of its thread in the batch has read = false.
C18_UnreadIffAnyUnread ==
    sms_pc = "conversations" =>
        LET d == Decoded
        IN  \A i \in 1..Len(summaries) :
                summaries[i].unread <=>
                    \E k \in OfThread(d, summaries[i].thread_id) : ~d[k].read

\* ------------------------------------------------------ the decode machine

\* A structure handed to parse_sms_message has at most MaxFields fields.
MaxFields == 8

\* The values tried at position i (counted from 0) of the structure: the
\* types KDE Connect sends, other integer types, integers that do not fit
\* the target type, and values that are no integers or no text.
FieldChoices(i) ==
    CASE i = 0 -> {IntValue("I32", 1), IntValue("I32", 2), IntValue("I16", 1),
                   IntValue("U16", 2), IntValue("U32", 2), StrValue("x"),
                   [type |-> "I64", v |-> <<0, 1, 0, 1>>]}
      [] i = 1 -> {StrValue("hi"), IntValue("I32", 5)}
      [] i = 2 -> {Array(<<Structure(<<StrValue("555")>>)>>),
                   Array(<<StrValue("555"), StrValue("666")>>),
                   Array(<<>>), StrValue("555")}
      [] i = 3 -> {IntValue("I64", 7), IntValue("I32", -1),
                   [type |-> "U32", v |-> <<65535, 65535>>],
                   [type |-> "U64", v |-> <<32768, 0, 0, 7>>],
                   IntValue("U8", 7), StrValue("7")}
      [] i = 4 -> {IntValue("I32", 0), IntValue("I32", 1), IntValue("U32", 0),
                   [type |-> "I64", v |-> <<0, 1, 0, 0>>],
                   [type |-> "Bool", v |-> FALSE]}
      [] i = 6 -> {IntValue("I64", 9), IntValue("U16", 9), IntValue("U8", 9),
                   StrValue("9")}
      [] OTHER -> {IntValue("I32", 0)}

InitDecode ==
    /\ GateOff /\ SmsOff /\ PhoneOff /\ ContactsOff
    /\ value \in {Structure(<<>>), StrValue("x"), IntValue("I64", 1)}
    /\ message = None
    /\ decode_pc = "build"

\* The sender adds the next field to the structure.
AddField(f) ==
    /\ decode_pc = "build"
    /\ value.type = "Structure"
    /\ Len(value.v) < MaxFields
    /\ value' = Structure(Append(value.v, f))
    /\ UNCHANGED <<message, decode_pc>>
    /\ UNCHANGED <<gate_vars, sms_vars, phone_vars, contacts_vars>>

\* parse_sms_message(value)
ParseSmsMessage ==
    /\ decode_pc = "build"
    /\ message' = parse_sms_message(value)
    /\ decode_pc' = "done"
    /\ UNCHANGED value
    /\ UNCHANGED <<gate_vars, sms_vars, phone_vars, contacts_vars>>

NextDecode ==
    \/ \E f \in FieldChoices(IF value.type = "Structure" THEN Len(value.v) ELSE 0) :
          AddField(f)
    \/ ParseSmsMessage

SpecDecode == InitDecode /\ [][NextDecode]_vars

\* --------------------------------------------------- reading a structure

\* The value is a structure with a field at position i (from 0).
HasField(i) == value.type = "Structure" /\ i < Len(value.v)

Field(i) == value.v[i + 1]

\* The field at position i is an integer value.
IntegerAt(i) == HasField(i) /\ Field(i).type \in IntTypes

\* The field at position i is absent or holds no integer.
NoIntegerAt(i) ==
    value.type = "Structure" /\ (HasField(i) => Field(i).type \notin IntTypes)

\* The number a D-Bus integer stands for, as a signed value of 80 bits:
\* wide enough for every integer type.
Number(val) == Cast(val.type, val.v, 5)

\* The number a decoded i32 or i64 stands for.
NumberOfSigned(limbs) == Cast("I64", limbs, 5)

\* The number fits the i32, the i64 the accessor returns.
FitsI32(val) == NumberOfSigned(Cast(val.type, val.v, 2)) = Number(val)

FitsI64(val) == NumberOfSigned(Cast(val.type, val.v, 4)) = Number(val)

\* The direction a code stands for: 1 is inbox, anything else is sent.
DirectionOf(val) == IF Number(val) = Bits(1, 5) THEN "Inbox" ELSE "Sent"

\* C14: a direction code of 1 decodes to inbox and every other direction
\* code, in any integer type that get_i32_from_value takes, to sent.
C14_DirectionCode ==
    (decode_pc = "done" /\ HasField(0) /\ get_i32_from_value(Field(0)).some)
        => message.v.message_type = DirectionOf(Field(0))

\* The field at position i is absent or holds no text.
NoTextAt(i) ==
    value.type = "Structure" /\ (HasField(i) => Field(i).type # "Str")

\* The field at position i is absent or holds no array.
NoArrayAt(i) ==
    value.type = "Structure" /\ (HasField(i) => Field(i).type # "Array")

\* C15 as stated: a field that is absent or of a type that cannot be read
\* does not make the decoder fail and takes the default timestamp 0, thread
\* id 0, read flag false, body "" and address "".
C15_ZeroDefaults ==
    (decode_pc = "done" /\ value.type = "Structure") =>
        /\ message.some
        /\ NoIntegerAt(3) => message.v.date = Bits(0, 4)
        /\ NoIntegerAt(6) => message.v.thread_id = Bits(0, 4)
        /\ NoIntegerAt(4) => message.v.read = FALSE
        /\ NoTextAt(1) => message.v.body = ""
        /\ NoArrayAt(2) => message.v.address = ""

\* C15 as amended: a field that is absent or of a type that cannot be read
\* does not make the decoder fail and takes its default: timestamp 0, thread
\* id 0, body "", but read flag true and address "Unknown".
C15_Defaults ==
    (decode_pc = "done" /\ value.type = "Structure") =>
        /\ message.some
        /\ NoIntegerAt(3) => message.v.date = Bits(0, 4)
        /\ NoIntegerAt(6) => message.v.thread_id = Bits(0, 4)
        /\ NoIntegerAt(4) => message.v.read = TRUE
        /\ NoTextAt(1) => message.v.body = ""
        /\ NoArrayAt(2) => message.v.address = "Unknown"

\* C15 witness: a decoded structure whose body, addresses, date and read
\* flag have types that cannot be read and whose thread id is absent.
C15_Witness ==
    /\ decode_pc = "done"
    /\ HasField(4) /\ ~HasField(6)
    /\ NoTextAt(1) /\ NoArrayAt(2) /\ NoIntegerAt(3) /\ NoIntegerAt(4)
    /\ message.some /\ message.v.read /\ message.v.address = "Unknown"

\* C16: a direction code, read flag, timestamp or thread id delivered in
\* any integer type (8 to 64 bits, signed or not), holding a number that the
\* target type can hold, is decoded to that number and not to the default.
C16_AnyIntegerType ==
    decode_pc = "done" =>
        /\ (IntegerAt(0) /\ FitsI32(Field(0)))
              => message.v.message_type = DirectionOf(Field(0))
        /\ (IntegerAt(4) /\ FitsI32(Field(4)))
              => message.v.read = (Number(Field(4)) # Bits(0, 5))
        /\ (IntegerAt(3) /\ FitsI64(Field(3)))
              => NumberOfSigned(message.v.date) = Number(Field(3))
        /\ (IntegerAt(6) /\ FitsI64(Field(6)))
              => NumberOfSigned(message.v.thread_id) = Number(Field(6))

\* C17: a structure of fewer than 7 fields, also of none, decodes without
\* failing to a message of thread id 0, and the fields that are there are
\* decoded.
C17_ShortStructure ==
    (decode_pc = "done" /\ value.type = "Structure" /\ Len(value.v) < 7) =>
        /\ message.some
        /\ message.v.thread_id = Bits(0, 4)
        /\ (HasField(0) /\ Field(0).type = "I32")
              => message.v.message_type = DirectionOf(Field(0))
        /\ (HasField(1) /\ Field(1).type = "Str")
              => message.v.body = Field(1).v
        /\ (HasField(2) /\ Field(2) = Array(<<Structure(<<StrValue("555")>>)>>))
              => message.v.address = "555"
        /\ (HasField(3) /\ Field(3).type = "I64")
              => message.v.date = Field(3).v
        /\ (HasField(4) /\ Field(4).type = "I32")
              => message.v.read = (Field(4).v # Bits(0, 2))

\* C17 witness: a structure of six fields was decoded, its direction, body,
\* address, date and read flag taken from the fields.
C17_Witness ==
    /\ decode_pc = "done"
    /\ value.type = "Structure" /\ Len(value.v) = 6
    /\ message.some
    /\ message.v.message_type = "Sent" /\ message.v.body = "hi"
    /\ message.v.address = "555" /\ message.v.date = Bits(7, 4)
    /\ ~message.v.read

(***************************************************************************)
(* Part 3: phone numbers (kdeconnect-dbus/src/contacts.rs and              *)
(* kdeconnect-dbus/src/plugins/sms.rs).  A text is a sequence of           *)
(* one-character strings, as in part 1.                                    *)
(***************************************************************************)

\* phone.chars().filter(|c| keep(c)).collect(), for the two filters below
RECURSIVE FilterDigits(_)
FilterDigits(text) ==
    IF text = <<>> THEN <<>>
    ELSE (IF IsDigit(Head(text)) THEN <<Head(text)>> ELSE <<>>)
         \o FilterDigits(Tail(text))

\* Mutant: a number of 10 digits starting with 1 is folded as well ("10 or
\* 11 digits starting with 1").
FoldsTenToo(digits) == Len(digits) \in {10, 11} /\ digits[1] = "1"

\* `digits.len() == 11 && digits.starts_with('1')`
Folds(digits) == Len(digits) = 11 /\ digits[1] = "1"

\* normalize_phone_number: the digits, without the leading 1 of 11 digits
\* (`digits[1..]`).
normalize_phone_number(text) ==
    LET digits == FilterDigits(text)
    IN  IF Folds(digits) THEN SubSeq(digits, 2, Len(digits)) ELSE digits

\* Mutant: parentheses are not taken out.
MatchesFormattingNoParens(ch) == ch \in {" ", "-", "+"}

\* `matches!(c, ' ' | '-' | '(' | ')' | '+')`
MatchesFormatting(ch) == ch \in {" ", "-", "(", ")", "+"}

\* canonicalize_phone_number
RECURSIVE canonicalize_phone_number(_)
canonicalize_phone_number(text) ==
    IF text = <<>> THEN <<>>
    ELSE (IF ~MatchesFormatting(Head(text)) THEN <<Head(text)>> ELSE <<>>)
         \o canonicalize_phone_number(Tail(text))

\* address.split('@').collect(): the parts between the '@', `part` being the
\* part read so far.
RECURSIVE SplitAt(_, _)
SplitAt(text, part) ==
    IF text = <<>> THEN <<part>>
    ELSE IF Head(text) = "@" THEN <<part>> \o SplitAt(Tail(text), <<>>)
    ELSE SplitAt(Tail(text), Append(part, Head(text)))

\* Mutant: a number of 16 digits passes.
PhoneLengthLoose(n) == n >= 3 /\ n <= 16

\* `canonicalized.len() >= 3 && canonicalized.len() <= 15`
PhoneLength(n) == n >= 3 /\ n <= 15

\* is_address_valid: a phone number of 3 to 15 digits once canonicalized, or
\* an address with one '@' between two parts that are not empty.
is_address_valid(address) ==
    LET canon == canonicalize_phone_number(address)
        parts == SplitAt(address, <<>>)
    IN  IF PhoneLength(Len(canon)) /\ \A i \in 1..Len(canon) : IsDigit(canon[i])
        THEN TRUE
        ELSE IF \E i \in 1..Len(address) : address[i] = "@"
        THEN Len(parts) = 2 /\ parts[1] # <<>> /\ parts[2] # <<>>
        ELSE FALSE

\* ------------------------------------------------------ the phone machine

\* At most MaxTyped characters are typed one by one.
MaxTyped == 3

\* Digits, formatting characters and three characters that are neither.
PhoneChars == {"1", "0", "5", "+", "-", " ", "(", ".", "a", "@"}

\* The numbers of the tests and of the documentation, and a number of ten
\* digits that starts with 1.
Example1 ==
    <<"(", "5", "5", "5", ")", " ", "1", "2", "3", "-", "4", "5", "6", "7">>

Example2 ==
    <<"+", "1", "-", "5", "5", "5", "-", "1", "2", "3", "-", "4", "5", "6", "7">>

Example3 ==
    <<"1", "5", "5", "5", "1", "2", "3", "4", "5", "6", "7">>

Example4 ==
    <<"5", "5", "5", ".", "1", "2", "3", ".", "4", "5", "6", "7">>

Example5 ==
    <<"+", "1", " ", "(", "5", "5", "5", ")", " ", "1", "2", "3", "-", "4", "5", "6", "7">>

TenDigits ==
    <<"1", "5", "5", "5", "1", "2", "3", "4", "5", "6">>

\* Thirteen digits behind a '+': with two or three digits typed before, 15
\* or 16 digits.
ThirteenDigits ==
    <<"+", "1", "2", "3", "4", "5", "6", "7", "8", "9", "0", "1", "2", "3">>

\* The end of an address with a second '@'.
SecondAt == <<"@", "c">>

PastedTexts ==
    {Example1, Example2, Example3, Example4, Example5, TenDigits,
     ThirteenDigits, SecondAt}

InitPhone ==
    /\ GateOff /\ SmsOff /\ DecodeOff /\ ContactsOff
    /\ phone = <<>>
    /\ normalized = <<>>
    /\ renormalized = <<>>
    /\ canonicalized = <<>>
    /\ valid = FALSE
    /\ phone_pc = "type"

\* One more character of the number.
Type(ch) ==
    /\ phone_pc = "type"
    /\ Len(phone) < MaxTyped
    /\ phone' = Append(phone, ch)
    /\ UNCHANGED <<normalized, renormalized, canonicalized, valid, phone_pc>>
    /\ UNCHANGED <<gate_vars, sms_vars, decode_vars, contacts_vars>>

\* The rest of the number comes in one piece.
Paste(text) ==
    /\ phone_pc = "type"
    /\ phone' = phone \o text
    /\ phone_pc' = "pasted"
    /\ UNCHANGED <<normalized, renormalized, canonicalized, valid>>
    /\ UNCHANGED <<gate_vars, sms_vars, decode_vars, contacts_vars>>

\* The number is normalized (as a lookup key, and the key once more),
\* canonicalized and validated as an address.
Apply ==
    /\ phone_pc \in {"type", "pasted"}
    /\ normalized' = normalize_phone_number(phone)
    /\ renormalized' = normalize_phone_number(normalize_phone_number(phone))
    /\ canonicalized' = canonicalize_phone_number(phone)
    /\ valid' = is_address_valid(phone)
    /\ phone_pc' = "done"
    /\ UNCHANGED phone
    /\ UNCHANGED <<gate_vars, sms_vars, decode_vars, contacts_vars>>

NextPhone ==
    \/ \E ch \in PhoneChars : Type(ch)
    \/ \E text \in PastedTexts : Paste(text)
    \/ Apply

SpecPhone == InitPhone /\ [][NextPhone]_vars

\* -------------------------------------------------------- reading a number

\* The key the tests expect for the first four examples.
ExampleKey ==
    <<"5", "5", "5", "1", "2", "3", "4", "5", "6", "7">>

\* The digits of a text, in order.
DigitsOf(text) == SelectSeq(text, IsDigit)

\* C19: normalize returns the ASCII digits of its input in their order,
\* without the leading 1 when these are exactly 11 digits starting with 1;
\* the four numbers of the test normalize to "5551234567"; normalizing the
\* result changes nothing.
C19_Normalize ==
    phone_pc = "done" =>
        LET d == DigitsOf(phone)
        IN  /\ normalized = IF Len(d) = 11 /\ d[1] = "1" THEN Tail(d) ELSE d
            /\ phone \in {Example1, Example2, Example3, Example4}
                  => normalized = ExampleKey
            /\ renormalized = normalized

\* C19 witness: a formatted number of 11 digits lost its leading 1, and what
\* is left starts with 1 again.
C19_Witness ==
    /\ phone_pc = "done"
    /\ Len(DigitsOf(phone)) = 11 /\ Len(phone) > 11
    /\ Len(normalized) = 10 /\ normalized[1] = "1"
    /\ renormalized = normalized

\* C20 as stated: canonicalize removes every space, hyphen and parenthesis
\* and a leading '+', and keeps everything else, also a '+' further on.
C20_LeadingPlusOnly ==
    phone_pc = "done" =>
        LET Stays(ch) == ch \notin {" ", "-", "(", ")"}
        IN  canonicalized =
                SelectSeq(IF phone # <<>> /\ phone[1] = "+" THEN Tail(phone)
                          ELSE phone, Stays)

\* C20 as amended: canonicalize removes every space, hyphen, parenthesis
\* and '+', wherever it stands, and keeps everything else: the digits, with
\* leading zeros, and every other character; "+1 (555) 123-4567" becomes
\* "15551234567".
C20_Canonicalize ==
    phone_pc = "done" =>
        LET Stays(ch) == ch \notin {" ", "-", "(", ")", "+"}
        IN  /\ canonicalized = SelectSeq(phone, Stays)
            /\ DigitsOf(canonicalized) = DigitsOf(phone)
            /\ phone = Example5 => canonicalized = Example3

\* C20 witness: a number with a leading zero, a '+' that is not leading and
\* a character that stays.
C20_Witness ==
    /\ phone_pc = "done"
    /\ Len(phone) = 3 /\ phone[1] = "0" /\ phone[2] = "+" /\ phone[3] = "."
    /\ canonicalized = <<"0", ".">>

\* C21: is_address_valid(raw) is true exactly when canonicalize(raw) is 3 to
\* 15 ASCII digits, or raw has exactly one '@' with a part that is not empty
\* on each side: "123" and "a@b" are valid, "12", 16 digits, "a@" and
\* "a@b@c" are not.
C21_ValidAddress ==
    phone_pc = "done" =>
        LET ats == {i \in 1..Len(phone) : phone[i] = "@"}
            digits == /\ Len(canonicalized) \in 3..15
                      /\ \A i \in 1..Len(canonicalized) : IsDigit(canonicalized[i])
            email == /\ Cardinality(ats) = 1
                     /\ 1 \notin ats /\ Len(phone) \notin ats
        IN  /\ valid <=> (digits \/ email)
            /\ phone \in {<<"1", "0", "5">>, <<"a", "@", "1">>} => valid
            /\ phone \in {<<"1", "0">>, <<"a", "@">>, <<"a", "@", "1">> \o SecondAt}
                  => ~valid
            /\ (Len(canonicalized) = 16 /\ canonicalized = DigitsOf(phone))
                  => ~valid

\* C21 witness: a number with formatting and 15 digits is valid.
C21_Witness ==
    /\ phone_pc = "done"
    /\ valid
    /\ Len(canonicalized) = 15 /\ Len(phone) > 15

(***************************************************************************)
(* Part 4: the contact directory (kdeconnect-dbus/src/contacts.rs).        *)
(*                                                                         *)
(* A vCard file is its text; parse_vcard reads it line by line.  The       *)
(* directory lists its entries in an order of its own, which is the order  *)
(* in which the model adds them.  phone_to_name is a function from the     *)
(* normalized numbers to the names.                                        *)
(***************************************************************************)

\* ------------------------------------------------------------------- text

CR == "\r"

\* char::is_whitespace, for the characters used here
IsSpace(ch) == ch \in {" ", "\t", CR, NL}

RECURSIVE TrimStart(_)
TrimStart(text) ==
    IF text # <<>> /\ IsSpace(Head(text)) THEN TrimStart(Tail(text)) ELSE text

RECURSIVE TrimEnd(_)
TrimEnd(text) ==
    IF text # <<>> /\ IsSpace(text[Len(text)])
    THEN TrimEnd(SubSeq(text, 1, Len(text) - 1))
    ELSE text

\* str::trim
Trim(text) == TrimEnd(TrimStart(text))

\* str::starts_with
StartsWith(text, prefix) ==
    Len(text) >= Len(prefix) /\ SubSeq(text, 1, Len(prefix)) = prefix

\* str::contains(char)
Contains(text, ch) == \E i \in 1..Len(text) : text[i] = ch

\* str::find(char), counted from 1
Find(text, ch) == CHOOSE i \in 1..Len(text) : text[i] = ch /\ ~Contains(SubSeq(text, 1, i - 1), ch)

\* A line that ended in "\n" loses a "\r" before it.
StripCR(line) ==
    IF line # <<>> /\ line[Len(line)] = CR THEN SubSeq(line, 1, Len(line) - 1)
    ELSE line

\* str::lines: the text cut after every "\n"; what follows the last "\n" is
\* a line if it is not empty.
RECURSIVE LinesFrom(_, _)
LinesFrom(text, line) ==
    IF text = <<>> THEN (IF line = <<>> THEN <<>> ELSE <<line>>)
    ELSE IF Head(text) = NL THEN <<StripCR(line)>> \o LinesFrom(Tail(text), <<>>)
    ELSE LinesFrom(Tail(text), Append(line, Head(text)))

Lines(text) == LinesFrom(text, <<>>)

UpperCase ==
    <<"A", "B", "C", "D", "E", "F", "G", "H", "I", "J", "K", "L", "M",
      "N", "O", "P", "Q", "R", "S", "T", "U", "V", "W", "X", "Y", "Z">>

LowerCase ==
    <<"a", "b", "c", "d", "e", "f", "g", "h", "i", "j", "k", "l", "m",
      "n", "o", "p", "q", "r", "s", "t", "u", "v", "w", "x", "y", "z">>

\* char::to_lowercase, for ASCII
ToLower(ch) ==
    IF \E i \in 1..26 : UpperCase[i] = ch
    THEN LowerCase[CHOOSE i \in 1..26 : UpperCase[i] = ch]
    ELSE ch

ToLowercase(text) == [i \in 1..Len(text) |-> ToLower(text[i])]

\* The characters in the order of their codes.
CharOrder ==
    <<"\t", NL, CR, " ", "(", ")", "+", "-", ".">> \o Digits
    \o <<":", ";", "=", "@">> \o UpperCase \o LowerCase

Rank(ch) == CHOOSE i \in 1..Len(CharOrder) : CharOrder[i] = ch

\* Ordering of two texts (str::cmp).
RECURSIVE TextLess(_, _)
TextLess(a, b) ==
    IF b = <<>> THEN FALSE
    ELSE IF a = <<>> THEN TRUE
    ELSE IF a[1] # b[1] THEN Rank(a[1]) < Rank(b[1])
    ELSE TextLess(Tail(a), Tail(b))

\* ------------------------------------------------------------ parse_vcard

\* Mutant: only a card with neither a name nor a number is dropped.
DiscardsIfBothMissing(name, phone_numbers) == name = <<>> /\ phone_numbers = <<>>

\* `if name.is_empty() || phone_numbers.is_empty() { return None; }`
Discards(name, phone_numbers) == name = <<>> \/ phone_numbers = <<>>

\* The number of a TEL line: what follows the first ':', trimmed.
TelNumber(line) == Trim(SubSeq(line, Find(line, ":") + 1, Len(line)))

\* The loop of parse_vcard over the lines: the last FN line gives the name,
\* every TEL line with a ':' and a number without '=' gives a number.
RECURSIVE ScanLines(_, _, _)
ScanLines(lines, name, phone_numbers) ==
    IF lines = <<>> THEN [name |-> name, phone_numbers |-> phone_numbers]
    ELSE LET line == Head(lines)
         IN  IF StartsWith(line, <<"F", "N", ":">>)
             THEN ScanLines(Tail(lines), Trim(SubSeq(line, 4, Len(line))),
                            phone_numbers)
             ELSE IF /\ StartsWith(line, <<"T", "E", "L">>)
                     /\ Contains(line, ":")
                     /\ TelNumber(line) # <<>>
                     /\ ~Contains(TelNumber(line), "=")
             THEN ScanLines(Tail(lines), name,
                            Append(phone_numbers, TelNumber(line)))
             ELSE ScanLines(Tail(lines), name, phone_numbers)

\* parse_vcard: None when the file cannot be read as text or when the card
\* is discarded.
parse_vcard(entry) ==
    IF ~entry.readable THEN None
    ELSE LET contact == ScanLines(Lines(entry.content), <<>>, <<>>)
         IN  IF Discards(contact.name, contact.phone_numbers) THEN None
             ELSE Some(contact)

\* -------------------------------------------------------- ContactLookup

\* ContactLookup::new()
EmptyLookup == [phone_to_name |-> <<>>, contacts |-> <<>>]

\* HashMap::insert
Insert(map, key, val) ==
    [k \in DOMAIN map \cup {key} |-> IF k = key THEN val ELSE map[k]]

\* `for phone in &contact.phone_numbers`: every number that normalizes to
\* something is a key of the name.
RECURSIVE InsertPhones(_, _, _)
InsertPhones(map, phone_numbers, name) ==
    IF phone_numbers = <<>> THEN map
    ELSE LET key == normalize_phone_number(Head(phone_numbers))
         IN  InsertPhones(IF key # <<>> THEN Insert(map, key, name) ELSE map,
                          Tail(phone_numbers), name)

\* `for entry in entries.flatten()`: the .vcf files that parse.
RECURSIVE LoadEntries(_, _)
LoadEntries(entries, found) ==
    IF entries = <<>> THEN found
    ELSE LET entry == Head(entries)
             parsed == parse_vcard(entry)
         IN  IF entry.extension = "vcf" /\ parsed.some
             THEN LoadEntries(Tail(entries),
                     [phone_to_name |-> InsertPhones(found.phone_to_name,
                                           parsed.v.phone_numbers, parsed.v.name),
                      contacts |-> Append(found.contacts, parsed.v)])
             ELSE LoadEntries(Tail(entries), found)

\* contacts.sort_by(|a, b| a.name.to_lowercase().cmp(&b.name.to_lowercase())),
\* a stable sort.
RECURSIVE InsertByName(_, _)
InsertByName(sorted, contact) ==
    IF sorted = <<>> THEN <<contact>>
    ELSE IF TextLess(ToLowercase(contact.name), ToLowercase(Head(sorted).name))
         THEN <<contact>> \o sorted
         ELSE <<Head(sorted)>> \o InsertByName(Tail(sorted), contact)

RECURSIVE SortByName(_, _)
SortByName(sorted, rest) ==
    IF rest = <<>> THEN sorted
    ELSE SortByName(InsertByName(sorted, Head(rest)), Tail(rest))

\* ContactLookup::load_for_device: the empty lookup when the directory is
\* not there or cannot be listed.
load_for_device(dir) ==
    IF ~dir.exists THEN EmptyLookup
    ELSE LET found == LoadEntries(dir.entries, EmptyLookup)
         IN  [found EXCEPT !.contacts = SortByName(<<>>, found.contacts)]

\* ContactLookup::get_name
get_name(found, phone_number) ==
    LET key == normalize_phone_number(phone_number)
    IN  IF key \in DOMAIN found.phone_to_name
        THEN Some(found.phone_to_name[key])
        ELSE None

\* Mutant: an unknown number comes back normalized.
FallbackNormalized(phone_number) == normalize_phone_number(phone_number)

\* `.unwrap_or_else(|| phone_number.to_string())`
Fallback(phone_number) == phone_number

\* ContactLookup::get_name_or_number
get_name_or_number(found, phone_number) ==
    LET name == get_name(found, phone_number)
    IN  IF name.some /\ Trim(name.v) # <<>> THEN name.v
        ELSE Fallback(phone_number)

\* ContactLookup::len
len(found) == Cardinality(DOMAIN found.phone_to_name)

\* ContactLookup::is_empty
is_empty(found) == DOMAIN found.phone_to_name = {}

\* ContactLookup::all_contacts
all_contacts(found) == found.contacts

\* ------------------------------------------------- the files of a device

\* The contact cards tried.
Cards ==
    \* One name, one number.
    [ Ann |->
        <<"F", "N", ":", "A", "n", "n", NL, "T", "E", "L", ":", "1", "1", "1",
          NL>>,
    \* One name, two numbers, lines ending in "\r\n".
      AnnTwo |->
        <<"F", "N", ":", "A", "n", "n", CR, NL, "T", "E", "L", ";", "C", "E",
          "L", "L", ":", "1", "1", "1", CR, NL, "T", "E", "L", ":", "2", "2",
          "2", CR, NL>>,
    \* A name in lower case, a parameter before the formatted number, no line
    \* break at the end.
      Bob |->
        <<"F", "N", ":", "b", "o", "b", NL, "T", "E", "L", ";", "T", "Y", "P",
          "E", "=", "C", "E", "L", "L", ":", "+", "1", " ", "(", "5", "5", "5",
          ")", " ", "1", "2", "3", "-", "4", "5", "6", "7">>,
    \* A name and no number.
      NameOnly |->
        <<"F", "N", ":", "C", "y", NL>>,
    \* A number and no name.
      PhoneOnly |->
        <<"T", "E", "L", ":", "1", "1", "1", NL>>,
    \* Neither a name nor a number.
      Neither |->
        <<"N", ":", "x", NL>>,
    \* A name of blanks.
      BlankName |->
        <<"F", "N", ":", " ", NL, "T", "E", "L", ":", "1", "1", "1", NL>>,
    \* A number without a digit.
      NoDigits |->
        <<"F", "N", ":", "D", "e", "e", NL, "T", "E", "L", ":", "e", "x", "t",
          NL>>,
    \* An encoded number, which is skipped.
      Encoded |->
        <<"F", "N", ":", "E", "v", "e", NL, "T", "E", "L", ":", "=", "3", "1",
          NL>> ]

\* The files tried: the cards above as .vcf files, a card under another
\* extension, and a .vcf file that is no text.
SampleEntries ==
    {[extension |-> "vcf", readable |-> TRUE, content |-> Cards[c]] :
        c \in DOMAIN Cards}
    \cup {[extension |-> "txt", readable |-> TRUE, content |-> Cards.Ann],
          [extension |-> "vcf", readable |-> FALSE, content |-> <<>>]}

\* The directory holds at most MaxFiles files.
MaxFiles == 3

\* The numbers asked for: known ones, plain and formatted, unknown ones and
\* the empty text.
AskedPhones ==
    {<<"1", "1", "1">>, <<"1", "-", "1", "1">>, Example3,
     <<"(", "9", ")", " ", "9">>, <<>>}

\* ------------------------------------------------- the directory machine

InitContacts ==
    /\ GateOff /\ SmsOff /\ DecodeOff /\ PhoneOff
    /\ vcard_dir \in {[exists |-> FALSE, entries |-> <<>>],
                      [exists |-> TRUE, entries |-> <<>>]}
    /\ lookup = EmptyLookup
    /\ asked = <<>>
    /\ answer = <<>>
    /\ contacts_pc = "sync"

\* KDE Connect syncs one more file into the directory.
Sync(entry) ==
    /\ contacts_pc = "sync"
    /\ vcard_dir.exists
    /\ Len(vcard_dir.entries) < MaxFiles
    /\ vcard_dir' = [vcard_dir EXCEPT !.entries = Append(@, entry)]
    /\ UNCHANGED <<lookup, asked, answer, contacts_pc>>
    /\ UNCHANGED <<gate_vars, sms_vars, decode_vars, phone_vars>>

\* ContactLookup::load_for_device(device_id)
LoadForDevice ==
    /\ contacts_pc = "sync"
    /\ lookup' = load_for_device(vcard_dir)
    /\ contacts_pc' = "loaded"
    /\ UNCHANGED <<vcard_dir, asked, answer>>
    /\ UNCHANGED <<gate_vars, sms_vars, decode_vars, phone_vars>>

\* lookup.get_name_or_number(phone_number)
GetNameOrNumber(phone_number) ==
    /\ contacts_pc = "loaded"
    /\ asked' = phone_number
    /\ answer' = get_name_or_number(lookup, phone_number)
    /\ contacts_pc' = "answered"
    /\ UNCHANGED <<vcard_dir, lookup>>
    /\ UNCHANGED <<gate_vars, sms_vars, decode_vars, phone_vars>>

NextContacts ==
    \/ \E entry \in SampleEntries : Sync(entry)
    \/ LoadForDevice
    \/ \E phone_number \in AskedPhones : GetNameOrNumber(phone_number)

SpecContacts == InitContacts /\ [][NextContacts]_vars

\* ------------------------------------------------- claims on the directory

\* The card read from a file, before the decision to keep it.
CardOf(entry) == ScanLines(Lines(entry.content), <<>>, <<>>)

\* The files that load_for_device hands to parse_vcard and that can be read.
Records ==
    {i \in DOMAIN vcard_dir.entries :
        /\ vcard_dir.entries[i].extension = "vcf"
        /\ vcard_dir.entries[i].readable}

\* The contact list holds the card.
Listed(card) ==
    \E k \in DOMAIN all_contacts(lookup) :
        /\ all_contacts(lookup)[k].name = card.name
        /\ all_contacts(lookup)[k].phone_numbers = card.phone_numbers

\* C22: get_name_or_number returns the indexed name when the normalized
\* number is a key of the index and the name is not blank, and the number
\* exactly as given otherwise; the index loaded from a directory that does
\* not exist is empty and every number comes back as given.
C22_NameOrNumber ==
    contacts_pc = "answered" =>
        LET key == normalize_phone_number(asked)
            index == lookup.phone_to_name
        IN  /\ IF key \in DOMAIN index /\ Trim(index[key]) # <<>>
               THEN answer = index[key]
               ELSE answer = asked
            /\ ~vcard_dir.exists =>
                   /\ DOMAIN index = {}
                   /\ answer = asked

\* A formatted number finds its name, and a formatted unknown number comes
\* back with its formatting.
C22_Witness ==
    /\ contacts_pc = "answered"
    /\ vcard_dir.exists
    /\ \/ /\ asked = <<"1", "-", "1", "1">>
          /\ answer = <<"A", "n", "n">>
       \/ /\ asked = <<"(", "9", ")", " ", "9">>
          /\ answer = asked
          /\ DOMAIN lookup.phone_to_name # {}

\* C23 as stated: a record is dropped only when it has neither a name nor a
\* number; a record with a name or with a number is in the contact list.
C23_KeptWithNameOrPhone ==
    contacts_pc # "sync" =>
        \A i \in Records :
            LET card == CardOf(vcard_dir.entries[i])
            IN  (card.name # <<>> \/ card.phone_numbers # <<>>) <=> Listed(card)

\* C23: a record is dropped when it has no name or no number; the records
\* with a name and at least one number are exactly the ones in the contact
\* list, one contact for each.
C23_KeptWithNameAndPhone ==
    contacts_pc # "sync" =>
        /\ \A i \in Records :
               LET card == CardOf(vcard_dir.entries[i])
               IN  (card.name # <<>> /\ card.phone_numbers # <<>>) <=> Listed(card)
        /\ Len(all_contacts(lookup)) =
               Cardinality({i \in Records :
                   LET card == CardOf(vcard_dir.entries[i])
                   IN  card.name # <<>> /\ card.phone_numbers # <<>>})

\* A card with a name only and a card with a number only are dropped next to
\* a card that is kept.
C23_Witness ==
    /\ contacts_pc = "loaded"
    /\ \E i, j, k \in Records :
           /\ vcard_dir.entries[i].content = Cards.NameOnly
           /\ vcard_dir.entries[j].content = Cards.PhoneOnly
           /\ vcard_dir.entries[k].content = Cards.Bob
    /\ Len(all_contacts(lookup)) = 1

\* C24: after a load, len() is the length of all_contacts() and is_empty()
\* holds exactly when all_contacts() is empty.
C24_LenCountsContacts ==
    contacts_pc # "sync" =>
        /\ len(lookup) = Len(all_contacts(lookup))
        /\ is_empty(lookup) <=> all_contacts(lookup) = <<>>

\* ================================================================ the gate,
\* once more: crashes, the stored time, fairness

\* The call died while it held the lock.
Crashed(c) == call[c].pc = "crashed"

\* The call is inside the function.
Inside(c) == call[c].pc \in {"flock", "read", "set_len", "write", "unlock"}

\* The call holds the lock of its file.
Holds(c) == c \in holders[call[c].path]

\* The call died after it had truncated the file and before it had written
\* the whole record.
LeftTruncated(c) == Crashed(c) /\ call[c].failed_at = "write"

\* In every state, only a call inside its critical section holds a lock, so
\* a call that has died holds none.
LockHeldInside ==
    \A c \in Calls :
        Holds(c) => call[c].pc \in {"read", "set_len", "write", "unlock"}

\* In every state, the call that gets the lock right after one that died
\* between the truncation and the end of the write allows, whatever its key.
NextAllows ==
    \A path \in Paths :
        \A i \in 1..Len(Locked(path)) :
            ( /\ i + 1 <= Len(Locked(path))
              /\ LeftTruncated(Locked(path)[i])
              /\ Decided(Locked(path)[i + 1]) \/ Done(Locked(path)[i + 1]) )
            => Allows(Locked(path)[i + 1])

\* C25: a crash under the lock, before the read, after the truncation or
\* part-way through the write, does not keep the lock; a truncated or partial
\* record is no record to the next call, which allows; and the calls that are
\* inside the function when another has died all return a decision (or die
\* in their turn).
C25_CrashTolerated ==
    /\ [](LockHeldInside /\ NextAllows)
    /\ ((\E d \in Calls : Crashed(d)) /\ (\E c \in Calls : Inside(c)))
           ~> (\A c \in Calls : ~Inside(c))

\* A call died part-way through the write of a record of key K, leaving the
\* key and the first digits of the time; the next call, of key K as well and
\* made at the same instant, has returned allow.
C25_Witness ==
    \E path \in Paths :
        /\ Len(Locked(path)) >= 2
        /\ LET c == Locked(path)[1]
               d == Locked(path)[2]
           IN  /\ LeftTruncated(c)
               /\ Done(d) /\ call[d].ret
               /\ call[d].key = call[c].key
               /\ call[d].now_ms = call[c].now_ms
               /\ files0[path] = AbsentFile

\* C28: under fair scheduling, with lock holders that complete or die, every
\* call that has entered the gate leaves it with a decision (or dies under
\* the lock): whenever some call is inside the function, a moment comes when
\* none is.  No call leaves without having held the lock, so a call blocked
\* on the lock does acquire it, and no deadlock is reached.
C28_EveryCallReturns ==
    /\ [](\A c \in Calls :
             (Done(c) \/ Crashed(c)) =>
                 \E i \in 1..Len(Locked(call[c].path)) : Locked(call[c].path)[i] = c)
    /\ (\E c \in Calls : Inside(c)) ~> (\A c \in Calls : ~Inside(c))

\* One call has died under the lock, the next holds the lock, and a third
\* is blocked in flock.
C28_Witness ==
    \E path \in Paths :
        /\ Len(Locked(path)) = 2
        /\ Crashed(Locked(path)[1])
        /\ Holds(Locked(path)[2])
        /\ \E c \in Calls : call[c].pc = "flock" /\ call[c].path = path

\* The call has read a record of its own key and has decided to deny.
Denies(c) == call[c].pc = "unlock" /\ ~call[c].should_notify

\* Between the i-th and the j-th call that held the lock, every call has
\* key `key`, has returned deny, and none of its system calls has failed.
DeniedRepeats(path, i, j, key) ==
    \A k \in (i + 1)..(j - 1) :
        LET r == Locked(path)[k]
        IN  Done(r) /\ Clean(r) /\ ~call[r].ret /\ call[r].key = key

\* A call that denies makes no write: when it is about to unlock, the file
\* holds what the call has read.
DenyKeepsRecord ==
    \A c \in Calls :
        Denies(c) => files[call[c].path].data = call[c].contents

\* The step by which a denying call returns leaves the file as it is.
DenyReturns ==
    \A c \in Calls :
        (Denies(c) /\ call'[c].pc = "done") => (files' = files /\ ~call'[c].ret)

\* Denied repeats do not move the window: after an allowed call of key K and
\* any number of denied repeats of K, a call of K whose timestamp is 2000 ms
\* or more after the allowed call's is allowed.
NotPostponed ==
    \A path \in Paths :
        \A i, j \in 1..Len(Locked(path)) :
            LET c == Locked(path)[i]
                d == Locked(path)[j]
            IN  ( /\ i < j
                  /\ Done(c) /\ Clean(c) /\ call[c].ret
                  /\ DeniedRepeats(path, i, j, call[c].key)
                  /\ call[d].key = call[c].key
                  /\ Clean(d) /\ (Decided(d) \/ Done(d))
                  /\ call[d].now_ms - call[c].now_ms >= DEDUP_WINDOW_MS )
                => Allows(d)

\* C26: a call that returns deny leaves the record unchanged, key and
\* timestamp, so the window runs from the last allowed call: denied repeats
\* of K cannot postpone the next allow of K beyond 2000 ms after the last
\* allowed K.
C26_DenyLeavesRecord ==
    /\ [](DenyKeepsRecord /\ NotPostponed)
    /\ [][DenyReturns]_vars

\* K is allowed, a repeat of K one millisecond before the end of the window
\* is denied, and a repeat of K at the end of the window is allowed.
C26_Witness ==
    \E path \in Paths :
        /\ Len(Locked(path)) = 3
        /\ LET c == Locked(path)[1]
               r == Locked(path)[2]
               d == Locked(path)[3]
           IN  /\ Done(c) /\ Clean(c) /\ call[c].ret
               /\ Done(r) /\ Clean(r) /\ ~call[r].ret
               /\ Done(d) /\ Clean(d) /\ call[d].ret
               /\ call[r].key = call[c].key /\ call[d].key = call[c].key
               /\ call[r].now_ms = call[c].now_ms + DEDUP_WINDOW_MS - 1
               /\ call[d].now_ms = call[c].now_ms + DEDUP_WINDOW_MS

\* C27: an allowed call that has written its record, every system call
\* succeeding, holds the lock on a file whose record is its key and a
\* timestamp that is not earlier than the moment the lock was acquired.
C27_StoredTimeUnderLock ==
    \A c \in Calls :
        (call[c].pc = "unlock" /\ call[c].should_notify /\ Clean(c))
            => /\ Holds(c)
               /\ ParseRecord(files[call[c].path].data).ok
               /\ ParseRecord(files[call[c].path].data).key = call[c].key
               /\ ParseRecord(files[call[c].path].data).time >= call[c].locked_at

\* C29: take the calls on one dedup file in the order in which they hold the
\* lock, every system call succeeding.  Two calls of key K that both return
\* allow with timestamps less than 2000 ms apart have between them a call of
\* another key that returns allow; so two allowed calls of K with no allowed
\* call of another key between them are 2000 ms or more apart.
C29_AllowsOfOneKey ==
    \A path \in Paths :
        \A i, j \in 1..Len(Locked(path)) :
            LET c == Locked(path)[i]
                d == Locked(path)[j]
            IN  ( /\ i < j
                  /\ Done(c) /\ Done(d) /\ call[c].ret /\ call[d].ret
                  /\ call[c].key = call[d].key
                  /\ call[d].now_ms < call[c].now_ms + DEDUP_WINDOW_MS )
                => \E k \in (i + 1)..(j - 1) :
                       /\ Done(Locked(path)[k])
                       /\ call[Locked(path)[k]].ret
                       /\ call[Locked(path)[k]].key # call[c].key

\* K is allowed twice at one instant, with an allowed call of another key in
\* between.
C29_Witness ==
    \E path \in Paths :
        /\ Len(Locked(path)) = 3
        /\ LET c == Locked(path)[1]
               r == Locked(path)[2]
               d == Locked(path)[3]
           IN  /\ Done(c) /\ Done(r) /\ Done(d)
               /\ call[c].ret /\ call[d].ret
               /\ call[d].key = call[c].key
               /\ call[r].key # call[c].key /\ call[r].ret
               /\ call[d].now_ms = call[c].now_ms

\* ================================================= the conversations again

\* The threads with a summary.
Returned == {summaries[i].thread_id : i \in 1..Len(summaries)}

\* C30: when the batch holds messages of more than 25 threads, 25 summaries
\* are returned and they are the threads of the most recent activity: no
\* message of a thread left out is more recent than any summary returned.
C30_MostRecentThreads ==
    sms_pc = "conversations" =>
        LET d == Decoded
            kept == Returned
        IN  Cardinality({d[k].thread_id : k \in 1..Len(d)}) > MAX_CONVERSATIONS =>
                /\ Len(summaries) = MAX_CONVERSATIONS
                /\ \A k \in 1..Len(d) :
                       d[k].thread_id \notin kept =>
                           \A i \in 1..Len(summaries) :
                               ~SignedLess(summaries[i].timestamp, d[k].date)

\* More than 25 threads came in out of order; a thread is left out whose
\* latest message is as recent as a summary returned, and another whose
\* latest message is older than every summary returned.
C30_Witness ==
    /\ sms_pc = "conversations"
    /\ LET d == Decoded
           kept == Returned
       IN  /\ Cardinality({d[k].thread_id : k \in 1..Len(d)}) > MAX_CONVERSATIONS + 1
           /\ \E k \in 1..Len(d) :
                  /\ d[k].thread_id \notin kept
                  /\ \E i \in 1..Len(summaries) : summaries[i].timestamp = d[k].date
           /\ \E k \in 1..Len(d) :
                  /\ d[k].thread_id \notin kept
                  /\ \A i \in 1..Len(summaries) :
                         SignedLess(d[k].date, summaries[i].timestamp)
           /\ \E a, b \in 1..Len(d) : a < b /\ SignedLess(d[a].date, d[b].date)

====
